---- MODULE Spec2Model ----
(***************************************************************************)
(* A model of tgan/data.py: the reversible column encodings                *)
(* (MultiModalNumberTransformer, CategoricalTransformer), the Preprocessor *)
(* that applies them to a whole table, load_data, and NpDataFlow.          *)
(*                                                                         *)
(* Conventions.                                                            *)
(*   - A string is a sequence of character codes ("1" = 49, "a" = 97);     *)
(*     strings are ordered as numpy orders them, lexicographically by      *)
(*     code.                                                               *)
(*   - A numpy array of shape (n, w) is a record [shape1 |-> w, rows |->   *)
(*     a sequence of n tuples of length w].                                *)
(*   - A float is an exact rational [n |-> numerator, d |-> denominator],  *)
(*     in lowest terms with d > 0, so that arithmetic is the real-number   *)
(*     arithmetic the float code approximates.                             *)
(*   - The result of a call is a record with a field error: "none" when    *)
(*     the call returns, and the name of the exception it raises otherwise.*)
(*   - Python's None is the record NoneValue.                              *)
(***************************************************************************)
EXTENDS Integers, Sequences, FiniteSets, TLC

VARIABLES
    column,               \* transformer level: the column last given to transform
    encoded,              \* transformer level: what transform returned
    decoded,              \* transformer level: what reverse_transform returned
    continuous_columns,   \* Preprocessor.continuous_columns
    metadata,             \* Preprocessor.metadata
    call,                 \* the last call made and its arguments
    result,               \* what the last call returned or raised
    dataset,              \* TGANDataset.data: the table the data flow wraps
    flow,                 \* the NpDataFlow instance
    iter                  \* the generator made by the last NpDataFlow.get_data()

vars == <<column, encoded, decoded, continuous_columns, metadata, call, result,
          dataset, flow, iter>>

NoneValue == [none |-> TRUE]

Raise(exception) == [error |-> exception]

Return(v) == [error |-> "none", value |-> v]

-----------------------------------------------------------------------------
(* Bounds *)

MaxStrLen == 2

MaxCatRows == 3

\* the characters of the strings of a categorical column: "1" and "a"
CharSet == {49, 97}

-----------------------------------------------------------------------------
(* Strings and their order *)

Min(a, b) == IF a <= b THEN a ELSE b

\* s < t as numpy (and Python) order strings: by the first differing code,
\* a proper prefix first
LexLess(s, t) ==
    LET common == Min(Len(s), Len(t))
        diff == {i \in 1..common : s[i] # t[i]}
    IN  IF diff = {}
        THEN Len(s) < Len(t)
        ELSE LET i == CHOOSE j \in diff : \A k \in diff : j <= k
             IN  s[i] < t[i]

RECURSIVE SortedSeq(_)
\* the elements of a set of strings in ascending order
SortedSeq(S) ==
    IF S = {}
    THEN <<>>
    ELSE LET least == CHOOSE s \in S : \A t \in S \ {s} : LexLess(s, t)
         IN  <<least>> \o SortedSeq(S \ {least})

Range(f) == {f[i] : i \in DOMAIN f}

\* numpy.unique(data).tolist(): the distinct values, sorted
npUnique(data) == SortedSeq(Range(data))

RECURSIVE StringsOfLen(_)
StringsOfLen(k) ==
    IF k = 0
    THEN {<<>>}
    ELSE {Append(s, c) : s \in StringsOfLen(k - 1), c \in CharSet}

Strings == UNION {StringsOfLen(k) : k \in 0..MaxStrLen}

StrColumns == UNION {[1..r -> Strings] : r \in 0..MaxCatRows}

-----------------------------------------------------------------------------
(* check_inputs *)

\* the guard of the decorator: the argument is an array of shape (n, 1)
check_inputs(data) == data.shape1 = 1

-----------------------------------------------------------------------------
(* CategoricalTransformer *)

\* value_mapping with the indices counted from 1
value_mapping_from_one(unique_values, value) ==
    CHOOSE index \in 1..Len(unique_values) : unique_values[index] = value

\* the 0-based position of value in unique_values: value_mapping[value]
value_mapping(unique_values, value) ==
    (CHOOSE index \in 1..Len(unique_values) : unique_values[index] = value) - 1

CategoricalTransform(data) ==
    LET unique_values == npUnique(data)
        v == [i \in 1..Len(data) |-> value_mapping(unique_values, data[i])]
        features == [shape1 |-> 1, rows |-> [i \in 1..Len(v) |-> <<v[i]>>]]
    IN  Return([features |-> features,
                mapping |-> unique_values,
                n |-> Len(unique_values)])

CategoricalReverseTransform(data, info) ==
    IF ~check_inputs(data)
    THEN Raise("ValueError")
    ELSE LET id2str == [x \in 0..(Len(info.mapping) - 1) |-> info.mapping[x + 1]]
         IN  IF \E i \in 1..Len(data.rows) : data.rows[i][1] \notin DOMAIN id2str
             THEN Raise("KeyError")
             ELSE Return([i \in 1..Len(data.rows) |-> id2str[data.rows[i][1]]])

-----------------------------------------------------------------------------
(* The categorical transformer on its own *)

Idle == [op |-> "none"]

InitRest ==
    /\ continuous_columns = {}
    /\ metadata = NoneValue
    /\ call = Idle
    /\ result = NoneValue
    /\ dataset = NoneValue
    /\ flow = NoneValue
    /\ iter = NoneValue

InitCat ==
    /\ column = <<>>
    /\ encoded = NoneValue
    /\ decoded = NoneValue
    /\ InitRest

\* categorical_transformer.transform(data); the transformer keeps no state, so
\* one column per behaviour covers every use of it
CatTransform ==
    /\ encoded = NoneValue
    /\ \E data \in StrColumns :
        /\ column' = data
        /\ encoded' = CategoricalTransform(data)
    /\ call' = [op |-> "transform"]
    /\ UNCHANGED <<decoded, continuous_columns, metadata, result,
                 dataset, flow, iter>>

\* categorical_transformer.reverse_transform(features, {"mapping": mapping})
\* on what the last transform returned
CatReverseTransform ==
    /\ encoded # NoneValue
    /\ decoded = NoneValue
    /\ decoded' = CategoricalReverseTransform(encoded.value.features,
                                              [mapping |-> encoded.value.mapping])
    /\ call' = [op |-> "reverse_transform", data |-> "encoded"]
    /\ UNCHANGED <<column, encoded, continuous_columns, metadata, result,
                 dataset, flow, iter>>

\* reverse_transform on indices the generator produced: any index up to the
\* vocabulary size, which is one past the last valid index
CatReverseGenerated ==
    /\ encoded # NoneValue
    /\ decoded = NoneValue
    /\ \E r \in 0..MaxCatRows, shape1 \in 1..2 :
        \E rows \in [1..r -> [1..shape1 -> 0..encoded.value.n]] :
            decoded' = CategoricalReverseTransform(
                           [shape1 |-> shape1, rows |-> rows],
                           [mapping |-> encoded.value.mapping])
    /\ call' = [op |-> "reverse_transform", data |-> "generated"]
    /\ UNCHANGED <<column, encoded, continuous_columns, metadata, result,
                 dataset, flow, iter>>

NextCat == CatTransform \/ CatReverseTransform \/ CatReverseGenerated

SpecCat == InitCat /\ [][NextCat]_vars

-----------------------------------------------------------------------------
(* Exact rationals, standing for the floats of the numeric code *)

Abs(a) == IF a < 0 THEN -a ELSE a

RECURSIVE GCD(_, _)
GCD(a, b) == IF b = 0 THEN a ELSE GCD(b, a % b)

\* n / d in lowest terms, d # 0
Rat(n, d) ==
    LET g == GCD(Abs(n), Abs(d))
        sign == IF d < 0 THEN -1 ELSE 1
    IN  [n |-> sign * (n \div g), d |-> sign * (d \div g)]

RatOfInt(x) == [n |-> x, d |-> 1]

RatLess(a, b) == a.n * b.d < b.n * a.d

RatLeq(a, b) == a.n * b.d <= b.n * a.d

\* a * k + m for integers k and m
RatMulAdd(a, k, m) == Rat(a.n * k + m * a.d, a.d)

\* numpy.clip(a, lo, hi)
npClip(a, lo, hi) == IF RatLess(a, lo) THEN lo ELSE IF RatLess(hi, a) THEN hi ELSE a

\* numpy.argmax(p): the 0-based position of the first maximum of a non-empty p
npArgmax(p) ==
    (CHOOSE k \in 1..Len(p) :
        /\ \A j \in 1..Len(p) : p[j] <= p[k]
        /\ \A j \in 1..(k - 1) : p[j] < p[k]) - 1

-----------------------------------------------------------------------------
(* MultiModalNumberTransformer *)

\* MultiModalNumberTransformer.__init__: num_modes=5
num_modes == 5

ClipLow == Rat(-99, 100)

ClipHigh == Rat(99, 100)

\* GaussianMixture(num_modes).fit(data) rejects a column with fewer samples
\* than components
GaussianMixtureFits(data) == Len(data.rows) >= num_modes

\* (x - means[k]) / (2 * stds[k]) for the component k (counted from 0) with the
\* greatest responsibility for x, clipped to [-0.99, 0.99]
feature(x, means, stds, k) ==
    npClip(Rat(x - means[k + 1], 2 * stds[k + 1]), ClipLow, ClipHigh)

\* model is the mixture sklearn fitted: means and stds of the num_modes
\* components, and predict_proba as a function of the value
MultiModalTransform(data, model) ==
    IF ~check_inputs(data)
    THEN Raise("ValueError")
    ELSE IF ~GaussianMixtureFits(data)
    THEN Raise("ValueError")
    ELSE Return([features |->
                     [shape1 |-> 1,
                      rows |-> [i \in 1..Len(data.rows) |->
                                  <<feature(data.rows[i][1], model.means, model.stds,
                                            npArgmax(model.predict_proba[data.rows[i][1]]))>>]],
                 probs |->
                     [shape1 |-> num_modes,
                      rows |-> [i \in 1..Len(data.rows) |->
                                  model.predict_proba[data.rows[i][1]]]],
                 means |-> model.means,
                 stds |-> model.stds])

\* restore without the factor 2 of the normalization
restore_no_factor(row, info, p_argmax) ==
    RatMulAdd(row[1], info.stds[p_argmax + 1], info.means[p_argmax + 1])

\* features * 2 * select_std + select_mean for one row, p_argmax being the
\* component (counted from 0) with the greatest responsibility
restore(row, info, p_argmax) ==
    RatMulAdd(row[1], 2 * info.stds[p_argmax + 1], info.means[p_argmax + 1])

MultiModalReverseTransform(data, info) ==
    IF data.shape1 = 0
    THEN Raise("IndexError")
    ELSE IF data.shape1 = 1
    THEN Raise("ValueError")        \* argmax of an empty sequence
    ELSE IF \E i \in 1..Len(data.rows) :
                npArgmax(SubSeq(data.rows[i], 2, data.shape1)) + 1
                    > Min(Len(info.means), Len(info.stds))
    THEN Raise("IndexError")
    ELSE Return([i \in 1..Len(data.rows) |->
                    restore(data.rows[i], info,
                            npArgmax(SubSeq(data.rows[i], 2, data.shape1)))])

\* numpy.concatenate((a, b), axis=1) of two arrays with as many rows
npConcatenate(a, b) ==
    [shape1 |-> a.shape1 + b.shape1,
     rows |-> [i \in 1..Len(a.rows) |-> a.rows[i] \o b.rows[i]]]

-----------------------------------------------------------------------------
(* The mixtures sklearn may fit *)

\* responsibilities are multiples of 1 / PScale
PScale == 2

\* the components whose mean or std may differ from the others are 1..MaxVaryMode
MaxVaryMode == 2

MaxContRows == 5

\* the two values a component's mean may take, and the two its std may take
MeanVals == <<0, 4>>

StdVals == <<1, 3>>

XVals == {1, 9}

RECURSIVE SeqSum(_)
SeqSum(p) == IF p = <<>> THEN 0 ELSE Head(p) + SeqSum(Tail(p))

\* the responsibility vectors: non-negative, summing to PScale (that is, to 1)
ProbVecs == {p \in [1..num_modes -> 0..PScale] : SeqSum(p) = PScale}

ModeSets == {{}} \cup {{k} : k \in 1..Min(MaxVaryMode, num_modes)}

MeansFamily == {[k \in 1..num_modes |-> IF k \in S THEN MeanVals[2] ELSE MeanVals[1]] : S \in ModeSets}

StdsFamily == {[k \in 1..num_modes |-> IF k \in S THEN StdVals[2] ELSE StdVals[1]] : S \in ModeSets}

\* the mixtures that may come out of fitting a column with the given values
Mixtures(values) ==
    [means : MeansFamily, stds : StdsFamily, predict_proba : [values -> ProbVecs]]

ColumnArray(values) == [shape1 |-> 1, rows |-> [i \in 1..Len(values) |-> <<values[i]>>]]

ContColumns ==
    {ColumnArray(values) : values \in UNION {[1..r -> XVals] : r \in (num_modes - 1)..MaxContRows}}
    \cup {[shape1 |-> 2, rows |-> [i \in 1..num_modes |-> <<x, x>>]] : x \in XVals}

ColumnValues(data) == UNION {Range(data.rows[i]) : i \in 1..Len(data.rows)}

-----------------------------------------------------------------------------
(* The continuous transformer on its own *)

\* continous_transformer.transform(data)
ContTransform ==
    /\ encoded = NoneValue
    /\ \E data \in ContColumns :
        \E model \in Mixtures(ColumnValues(data)) :
            /\ column' = data
            /\ encoded' = MultiModalTransform(data, model)
    /\ call' = [op |-> "transform"]
    /\ UNCHANGED <<decoded, continuous_columns, metadata, result,
                 dataset, flow, iter>>

\* continous_transformer.reverse_transform on the block the Preprocessor stores
\* for the column, concatenate((features, probs), axis=1), with the means and
\* stds transform returned
ContReverseTransform ==
    /\ encoded # NoneValue
    /\ encoded.error = "none"
    /\ decoded = NoneValue
    /\ decoded' = MultiModalReverseTransform(
                      npConcatenate(encoded.value.features, encoded.value.probs),
                      [means |-> encoded.value.means, stds |-> encoded.value.stds])
    /\ call' = [op |-> "reverse_transform", data |-> "encoded"]
    /\ UNCHANGED <<column, encoded, continuous_columns, metadata, result,
                 dataset, flow, iter>>

\* reverse_transform on a block that lacks the responsibilities
ContReverseFeaturesOnly ==
    /\ encoded # NoneValue
    /\ encoded.error = "none"
    /\ decoded = NoneValue
    /\ decoded' = MultiModalReverseTransform(
                      encoded.value.features,
                      [means |-> encoded.value.means, stds |-> encoded.value.stds])
    /\ call' = [op |-> "reverse_transform", data |-> "features"]
    /\ UNCHANGED <<column, encoded, continuous_columns, metadata, result,
                 dataset, flow, iter>>

NextCont == ContTransform \/ ContReverseTransform \/ ContReverseFeaturesOnly

SpecCont == InitCat /\ [][NextCont]_vars

-----------------------------------------------------------------------------
(* Raw tables *)

\* A raw table (a DataFrame read with header=None) is a sequence of columns,
\* labelled 0, 1, ... in the code and 1, 2, ... here; a column is a sequence of
\* cells, and a cell is a number or a text.
NumCell(v) == [num |-> TRUE, v |-> v]

\* the text made of the v-th letter: "a", "b", ...
TextCell(v) == [num |-> FALSE, v |-> v]

RECURSIVE Digits(_)
\* the decimal digits of a natural number, as a string
Digits(x) ==
    IF x < 10 THEN <<48 + x>> ELSE Append(Digits(x \div 10), 48 + (x % 10))

\* Series.astype(str) on one cell
astype_str(cell) == IF cell.num THEN Digits(cell.v) ELSE <<96 + cell.v>>

\* data.shape[1]
num_cols(data) == Len(data)

-----------------------------------------------------------------------------
(* Preprocessor *)

ValueDetails(means, stds) ==
    [type |-> "value", means |-> means, stds |-> stds, n |-> 5]

CategoryDetails(mapping, n) ==
    [type |-> "category", mapping |-> mapping, n |-> n]

\* what the loop of fit_transform has built after some columns: the details,
\* the blocks of transformed_data, and the exception that ended it, if any
Built(error, details, transformed_data) ==
    [error |-> error, details |-> details, transformed_data |-> transformed_data]

\* the body of the loop for a continuous column, given what
\* continous_transformer.transform returned or raised
value_column(built, fitted) ==
    IF fitted.error # "none"
    THEN Built(fitted.error, built.details, built.transformed_data)
    ELSE Built("none",
               Append(built.details, ValueDetails(fitted.value.means, fitted.value.stds)),
               Append(built.transformed_data,
                      npConcatenate(fitted.value.features, fitted.value.probs)))

\* the body of the loop for a categorical column, given what
\* categorical_transformer.transform returned
category_column(built, fitted) ==
    Built("none",
          Append(built.details, CategoryDetails(fitted.value.mapping, fitted.value.n)),
          Append(built.transformed_data, fitted.value.features))

\* data[i].values.reshape([-1, 1]) given to continous_transformer.transform:
\* sklearn has no float for a text
continuous_transform(cells, model) ==
    IF \E r \in 1..Len(cells) : ~cells[r].num
    THEN Raise("ValueError")
    ELSE MultiModalTransform(ColumnArray([r \in 1..Len(cells) |-> cells[r].v]), model)

\* data[i].astype(str).values given to categorical_transformer.transform
categorical_transform(cells) ==
    CategoricalTransform([r \in 1..Len(cells) |-> astype_str(cells[r])])

RECURSIVE fit_transform_columns(_, _, _, _)
\* The loop of fit_transform over the columns from column Len(built.details)
\* (counted from 0) on; models[i] is the mixture sklearn fits to column i.
fit_transform_columns(self, data, models, built) ==
    IF built.error # "none" \/ Len(built.details) = num_cols(data)
    THEN built
    ELSE fit_transform_columns(self, data, models,
             IF Len(built.details) \in self.continuous_columns
             THEN value_column(built,
                      continuous_transform(data[Len(built.details) + 1],
                                           models[Len(built.details)]))
             ELSE category_column(built,
                      categorical_transform(data[Len(built.details) + 1])))

\* a transformed table: the blocks under the keys 'f00', 'f01', ..., here a
\* function of the column index counted from 0
TransformedTable(blocks) == [i \in 0..(Len(blocks) - 1) |-> blocks[i + 1]]

\* the end of fit_transform with the metadata of a failed call committed as
\* far as the loop got
fit_transform_return_partial(self, data, fitting, built) ==
    [self |-> IF fitting
              THEN [self EXCEPT !.metadata =
                        [num_features |-> num_cols(data), details |-> built.details]]
              ELSE self,
     result |-> IF built.error # "none"
                THEN Raise(built.error)
                ELSE Return(TransformedTable(built.transformed_data))]

\* the end of fit_transform, after the loop: the instance after the call,
\* and what the call returned or raised
fit_transform_return(self, data, fitting, built) ==
    IF built.error # "none"
    THEN [self |-> self, result |-> Raise(built.error)]
    ELSE [self |-> IF fitting
                   THEN [self EXCEPT !.metadata =
                             [num_features |-> num_cols(data), details |-> built.details]]
                   ELSE self,
          result |-> Return(TransformedTable(built.transformed_data))]

\* Preprocessor.fit_transform
fit_transform(self, data, fitting, models) ==
    fit_transform_return(self, data, fitting,
        fit_transform_columns(self, data, models, Built("none", <<>>, <<>>)))

\* transform passing fitting=True
transform_fitting(self, data, models) == fit_transform(self, data, TRUE, models)

\* Preprocessor.transform
transform(self, data, models) == fit_transform(self, data, FALSE, models)

\* fit drops what fit_transform returns
fit_return(done) ==
    [self |-> done.self,
     result |-> IF done.result.error = "none" THEN Return(NoneValue) ELSE done.result]

\* Preprocessor.fit
fit(self, data, models) == fit_return(fit_transform(self, data, TRUE, models))

\* table.append(column) before `column` was ever assigned
Unbound == Raise("UnboundLocalError")

RECURSIVE reverse_transform_append(_, _, _, _, _)

\* the two ifs of the loop of reverse_transform: what `column` holds after
\* them, bound being what it held before
reverse_column(column_data, column_metadata, bound) ==
    IF column_metadata.type = "value"
    THEN MultiModalReverseTransform(column_data, column_metadata)
    ELSE IF column_metadata.type = "category"
    THEN CategoricalReverseTransform(column_data, column_metadata)
    ELSE bound

RECURSIVE reverse_transform_columns(_, _, _, _, _)
\* The loop of reverse_transform from column i (counted from 0) on: table is
\* the list built so far, and bound what the loop's variable `column` holds,
\* Unbound before its first assignment.
reverse_transform_columns(self, data, i, table, bound) ==
    IF i = self.metadata.num_features
    THEN Return(table)
    ELSE IF i \notin DOMAIN data
    THEN Raise("KeyError")
    ELSE IF i + 1 > Len(self.metadata.details)
    THEN Raise("IndexError")
    ELSE reverse_transform_append(self, data, i, table,
             reverse_column(data[i], self.metadata.details[i + 1], bound))

\* table.append(column), and on to the next column
reverse_transform_append(self, data, i, table, decodedcolumn) ==
    IF decodedcolumn.error # "none"
    THEN decodedcolumn
    ELSE reverse_transform_columns(self, data, i + 1,
             Append(table, decodedcolumn.value), decodedcolumn)

\* pandas.DataFrame(dict(enumerate(table))), which takes columns of one length
DataFrame(done) ==
    IF done.error # "none"
    THEN done
    ELSE IF \E i, j \in 1..Len(done.value) : Len(done.value[i]) # Len(done.value[j])
    THEN Raise("ValueError")
    ELSE done

\* Preprocessor.reverse_transform
reverse_transform(self, data) ==
    IF self.metadata = NoneValue
    THEN Raise("TypeError")         \* None is not subscriptable
    ELSE DataFrame(reverse_transform_columns(self, data, 0, <<>>, Unbound))

-----------------------------------------------------------------------------
(* NpDataFlow *)

RECURSIVE MinLen(_)
\* the length zip() stops at: that of the shortest sequence, 0 for none
MinLen(seqs) ==
    IF seqs = <<>>
    THEN 0
    ELSE IF Len(seqs) = 1
    THEN Len(seqs[1])
    ELSE Min(Len(seqs[1]), MinLen(Tail(seqs)))

\* list(zip(*columns))
zip(columns) ==
    [k \in 1..MinLen(columns) |-> [c \in 1..Len(columns) |-> columns[c][k]]]

RECURSIVE NpDataFlowColumns(_, _, _)
\* The loop of NpDataFlow.__init__ over metadata['details']: self.data as a
\* list of arrays (each a sequence of rows), or the exception raised. The
\* block of a 'category' column holds the indices CategoricalTransformer
\* produced, which the conversion to int32 leaves as they are.
NpDataFlowColumns(data, details, acc) ==
    LET column_id == Len(acc.done)
    IN  IF column_id = Len(details)
        THEN Return(acc.data)
        ELSE LET column_info == details[column_id + 1]
             IN  IF column_info.type = "value"
                 THEN IF column_id \notin DOMAIN data
                      THEN Raise("KeyError")
                      ELSE LET col_data == data[column_id].rows
                               value == [k \in 1..Len(col_data) |-> SubSeq(col_data[k], 1, 1)]
                               cluster == [k \in 1..Len(col_data) |->
                                              SubSeq(col_data[k], 2, Len(col_data[k]))]
                           IN  NpDataFlowColumns(data, details,
                                   [done |-> Append(acc.done, column_id),
                                    data |-> acc.data \o <<value, cluster>>])
                 ELSE IF column_info.type = "category"
                 THEN IF column_id \notin DOMAIN data
                      THEN Raise("KeyError")
                      ELSE NpDataFlowColumns(data, details,
                               [done |-> Append(acc.done, column_id),
                                data |-> Append(acc.data, data[column_id].rows)])
                 ELSE Raise("ValueError")

\* NpDataFlow.__init__(data, metadata, shuffle). The attribute rng, which
\* get_data uses, is not set here: RNGDataFlow.reset_state() sets it.
NpDataFlow(data, meta, shuffle) ==
    IF meta = NoneValue
    THEN Raise("TypeError")
    ELSE LET columns == NpDataFlowColumns(data, meta.details, [done |-> <<>>, data |-> <<>>])
         IN  IF columns.error # "none"
             THEN columns
             ELSE Return([shuffle |-> shuffle,
                          rng |-> NoneValue,
                          metadata |-> meta,
                          num_features |-> meta.num_features,
                          data |-> zip(columns.value)])

\* NpDataFlow.size
size(self) == Len(self.data)

\* the orders of the indices 0 .. n-1
Shuffles(n) == {f \in [1..n -> 0..(n - 1)] : \A i, j \in 1..n : f[i] = f[j] => i = j}

\* the values idxs may take in get_data: numpy.arange(len(self.data)),
\* shuffled in place by self.rng.shuffle when self.shuffle is set
get_data_idxs(self) ==
    IF self.shuffle
    THEN Shuffles(Len(self.data))
    ELSE {[k \in 1..Len(self.data) |-> k - 1]}

\* A generator of get_data: before its first next() its body has not run
\* (started is FALSE); then idxs is fixed, yielded lists the rows it has
\* yielded, and done tells that it has returned.
NewGenerator == [started |-> FALSE, done |-> FALSE, idxs |-> <<>>, yielded |-> <<>>]

\* a generator that returns before the last index
generator_next_short(self, gen, idxs) ==
    LET order == IF gen.started THEN gen.idxs ELSE idxs
        pos == Len(gen.yielded)
    IN  IF pos + 1 < Len(order)
        THEN [started |-> TRUE, done |-> FALSE, idxs |-> order,
              yielded |-> Append(gen.yielded, self.data[order[pos + 1] + 1])]
        ELSE [started |-> TRUE, done |-> TRUE, idxs |-> order, yielded |-> gen.yielded]

\* one next() on the generator, with idxs the value the shuffle gives on the
\* first one
generator_next(self, gen, idxs) ==
    LET order == IF gen.started THEN gen.idxs ELSE idxs
        pos == Len(gen.yielded)
    IN  IF pos < Len(order)
        THEN [started |-> TRUE, done |-> FALSE, idxs |-> order,
              yielded |-> Append(gen.yielded, self.data[order[pos + 1] + 1])]
        ELSE [started |-> TRUE, done |-> TRUE, idxs |-> order, yielded |-> gen.yielded]

-----------------------------------------------------------------------------
(* load_data *)

\* a DataFrame read with header=None has the labels 0, 1, ...: none of the
\* keys 'f00', 'f01', ... NpDataFlow looks up
FrameKeys(raw_dataset) == [i \in {} |-> raw_dataset]

\* Preprocessor(continuous_columns, metadata)
Preprocessor(cols, meta) == [continuous_columns |-> cols, metadata |-> meta]

\* Preprocessor() as load_data constructs it: continuous_columns=None becomes []
PreprocessorDefault == Preprocessor({}, NoneValue)

\* TGANDataset(data, preprocessor), with the Preprocessor it keeps: the
\* TGANDataset, or the exception NpDataFlow raises
TGANDataset(data, preprocessor) ==
    [prep |-> preprocessor,
     result |-> LET dataflow == NpDataFlow(data, preprocessor.metadata, TRUE)
                IN  IF dataflow.error # "none"
                    THEN dataflow
                    ELSE Return([data |-> data,
                                 metadata |-> preprocessor.metadata,
                                 dataflow |-> dataflow.value])]

\* load_data once prep.fit_transform(raw_dataset) has returned or raised
load_data_preprocessed(prep, fitted) ==
    IF fitted.result.error # "none"
    THEN [prep |-> prep, result |-> fitted.result]
    ELSE TGANDataset(fitted.result.value, fitted.self)

\* load_data(dataset_name, continuous_columns, header, preprocessing, metadata),
\* raw_dataset being what read_csv returns for dataset_name: the Preprocessor
\* it leaves in the TGANDataset, and the TGANDataset or the exception raised
load_data(raw_dataset, cols, preprocessing, meta, models) ==
    IF preprocessing
    THEN load_data_preprocessed(PreprocessorDefault,
             fit_transform(PreprocessorDefault, raw_dataset, TRUE, models))
    ELSE TGANDataset(FrameKeys(raw_dataset),
                     [PreprocessorDefault EXCEPT !.metadata = meta])

-----------------------------------------------------------------------------
(* The tables and mixtures of the Preprocessor's runs *)

MaxCols == 2

\* the longest table; a mixture of num_modes components needs num_modes rows
MaxRows == 5

\* the calls made on one Preprocessor, not counting a reverse_transform of
\* what the call before it returned
MaxCalls == 1

\* the numbers 2 and 10, whose strings sort the other way round, and "a"
Cells == {NumCell(2), NumCell(10), TextCell(1)}

NumVals == {c.v : c \in {cell \in Cells : cell.num}}

RowCounts == {0, 1, MaxRows}

\* the columns of r cells that repeat one cell after the first
Columns(r) == {[k \in 1..r |-> IF k = 1 THEN a ELSE b] : a, b \in Cells}

Tables == UNION {[1..c -> Columns(r)] : c \in 0..MaxCols, r \in RowCounts}

ColIndices == 0..(MaxCols - 1)

\* a mixture that gives all the responsibility for 2 to the first component
\* and for any other value to the second
PlainProba ==
    [x \in NumVals |->
        [k \in 1..num_modes |->
            IF (x = 2 /\ k = 1) \/ (x # 2 /\ k = 2) THEN PScale ELSE 0]]

\* one that gives it all to the second component
SecondProba == [x \in NumVals |-> [k \in 1..num_modes |-> IF k = 2 THEN PScale ELSE 0]]

\* the mixtures fitted in these runs: the first mean may differ from the others
PreMixtures ==
    [means : {[k \in 1..num_modes |-> IF k \in S THEN MeanVals[2] ELSE MeanVals[1]] :
                 S \in {{}, {1}}},
     stds : {[k \in 1..num_modes |-> StdVals[2]]},
     predict_proba : {PlainProba, SecondProba}]

\* one mixture for each continuous column of the table
Models(cols, data) == [cols \cap (0..(num_cols(data) - 1)) -> PreMixtures]

\* the same, the responsibilities being PlainProba
PlainModels(cols, data) ==
    [cols \cap (0..(num_cols(data) - 1)) ->
        {m \in PreMixtures : m.predict_proba = PlainProba}]

\* the calls fit_transform(data, fitting) on Preprocessor(cols) that return,
\* for the given tables
Fitted(cols, tables, fitting) ==
    {done \in UNION {{fit_transform(Preprocessor(cols, NoneValue), t, fitting, m) :
                         m \in PlainModels(cols, t)} : t \in tables} :
        done.result.error = "none"}

\* for each set of continuous columns, the metadata a fit with it can store
FittedMetadata ==
    [cols \in SUBSET ColIndices |->
        {done.self.metadata : done \in Fitted(cols, Tables, TRUE)}]

\* metadata with one descriptor of a type the code does not know, made from
\* the metadata of the tables of one row
UnsupportedMetadata ==
    [cols \in SUBSET ColIndices |->
        UNION {{[done.self.metadata EXCEPT !.details[i].type = "other"] :
                    i \in 1..Len(done.self.metadata.details)} :
                  done \in Fitted(cols, {t \in Tables : \A c \in 1..Len(t) : Len(t[c]) = 1},
                                  TRUE)}]

\* for each set of continuous columns, the transformed tables fit_transform
\* produces with it
TransformedTables ==
    [cols \in SUBSET ColIndices |->
        {done.result.value : done \in Fitted(cols, Tables, FALSE)}]

\* the metadata given to load_data: none, that of a table without columns,
\* and that of a table of one categorical column
LoadMetadata ==
    {[num_features |-> 0, details |-> <<>>],
     [num_features |-> 1, details |-> <<CategoryDetails(<< <<97>> >>, 1)>>]}

-----------------------------------------------------------------------------
(* The Preprocessor and load_data *)

self == Preprocessor(continuous_columns, metadata)

\* Preprocessor(continuous_columns, metadata): metadata is absent, or injected:
\* what an earlier fit stored, or a record with an unsupported type
Init ==
    /\ column = <<>>
    /\ encoded = NoneValue
    /\ decoded = NoneValue
    /\ continuous_columns \in SUBSET ColIndices
    /\ metadata \in {NoneValue} \cup FittedMetadata[continuous_columns]
                                \cup UnsupportedMetadata[continuous_columns]
    /\ call = [op |-> "none", seq |-> 0]
    /\ result = NoneValue
    /\ dataset = NoneValue
    /\ flow = NoneValue
    /\ iter = NoneValue

UnchangedTransformers == UNCHANGED <<column, encoded, decoded>>

\* preprocessor.fit(data)
Fit ==
    /\ call.seq < MaxCalls
    /\ \E data \in Tables :
        \E models \in Models(continuous_columns, data) :
            \E done \in {fit(self, data, models)} :
                /\ metadata' = done.self.metadata
                /\ result' = done.result
                /\ call' = [op |-> "fit", data |-> data, seq |-> call.seq + 1]
    /\ UNCHANGED <<continuous_columns, dataset, flow, iter>>
    /\ UnchangedTransformers

\* preprocessor.fit_transform(data)
FitTransform ==
    /\ call.seq < MaxCalls
    /\ \E data \in Tables :
        \E models \in Models(continuous_columns, data) :
            \E done \in {fit_transform(self, data, TRUE, models)} :
                /\ metadata' = done.self.metadata
                /\ result' = done.result
                /\ call' = [op |-> "fit_transform", data |-> data, seq |-> call.seq + 1]
    /\ UNCHANGED <<continuous_columns, dataset, flow, iter>>
    /\ UnchangedTransformers

\* preprocessor.transform(data)
Transform ==
    /\ call.seq < MaxCalls
    /\ \E data \in Tables :
        \E models \in Models(continuous_columns, data) :
            \E done \in {transform(self, data, models)} :
                /\ metadata' = done.self.metadata
                /\ result' = done.result
                /\ call' = [op |-> "transform", data |-> data, seq |-> call.seq + 1]
    /\ UNCHANGED <<continuous_columns, dataset, flow, iter>>
    /\ UnchangedTransformers

\* preprocessor.reverse_transform(data) on a transformed table
ReverseTransform ==
    /\ call.seq < MaxCalls
    /\ \E data \in TransformedTables[continuous_columns] :
        /\ result' = reverse_transform(self, data)
        /\ call' = [op |-> "reverse_transform", data |-> data, of |-> "table",
                    seq |-> call.seq + 1]
    /\ UNCHANGED <<continuous_columns, metadata, dataset, flow, iter>>
    /\ UnchangedTransformers

\* preprocessor.reverse_transform(preprocessor.transform(data)): the call
\* before returned the transformed table, which is decoded at once
ReverseTransformOutput ==
    /\ call.op \in {"transform", "fit_transform"}
    /\ result.error = "none"
    /\ result' = reverse_transform(self, result.value)
    /\ call' = [op |-> "reverse_transform", data |-> result.value, of |-> call.op,
                source |-> call.data, seq |-> call.seq + 1]
    /\ UNCHANGED <<continuous_columns, metadata, dataset, flow, iter>>
    /\ UnchangedTransformers

\* load_data(dataset_name, continuous_columns, preprocessing=..., metadata=...),
\* called where no Preprocessor has been fitted: the Preprocessor from here on
\* is the one of the TGANDataset it returns
LoadData ==
    /\ call.seq < MaxCalls
    /\ metadata = NoneValue
    /\ \E raw_dataset \in Tables, cols \in SUBSET ColIndices, preprocessing \in BOOLEAN :
        \E meta \in IF preprocessing THEN {NoneValue} ELSE {NoneValue} \cup LoadMetadata :
            \E done \in {load_data(raw_dataset, cols, preprocessing, meta, <<>>)} :
                /\ result' = done.result
                /\ call' = [op |-> "load_data", data |-> raw_dataset,
                            continuous_columns |-> cols,
                            preprocessing |-> preprocessing, seq |-> call.seq + 1]
                /\ IF done.result.error = "none"
                   THEN /\ continuous_columns' = done.prep.continuous_columns
                        /\ metadata' = done.prep.metadata
                        /\ dataset' = done.result.value.data
                        /\ flow' = done.result.value.dataflow
                   ELSE UNCHANGED <<continuous_columns, metadata, dataset, flow>>
    /\ UNCHANGED iter
    /\ UnchangedTransformers

Next ==
    \/ Fit
    \/ FitTransform
    \/ Transform
    \/ ReverseTransform
    \/ ReverseTransformOutput
    \/ LoadData

Spec == Init /\ [][Next]_vars

-----------------------------------------------------------------------------
(* An NpDataFlow and the iterations over it *)

\* the iterations made over one NpDataFlow
MaxIters == 2

\* the tables whose columns start with the number 2 and go on with something
\* else, so that the first record differs from the others; the flows are
\* built with continuous_columns among the columns of the table
FlowTables ==
    {t \in Tables : \A c \in 1..Len(t) :
        /\ Len(t[c]) > 0 => t[c][1] = NumCell(2)
        /\ Len(t[c]) > 1 => t[c][2] # NumCell(2)}

\* NpDataFlow(dataset, metadata, shuffle) over the table and the metadata of
\* a fit_transform that returned
InitFlow ==
    /\ column = <<>>
    /\ encoded = NoneValue
    /\ decoded = NoneValue
    /\ \E cols \in SUBSET ColIndices, shuffle \in BOOLEAN :
        \E done \in Fitted(cols, {t \in FlowTables : cols \subseteq 0..(Len(t) - 1)}, TRUE) :
            /\ continuous_columns = cols
            /\ metadata = done.self.metadata
            /\ dataset = done.result.value
            /\ flow = NpDataFlow(done.result.value, done.self.metadata, shuffle).value
    /\ call = [op |-> "none", seq |-> 0]
    /\ result = NoneValue
    /\ iter = NoneValue

\* flow.reset_state(), which tensorpack requires before the first get_data()
\* and which gives the flow its random number generator
ResetState ==
    /\ flow.rng = NoneValue
    /\ flow' = [flow EXCEPT !.rng = [seeded |-> TRUE]]
    /\ call' = [op |-> "reset_state", seq |-> call.seq]
    /\ UNCHANGED <<continuous_columns, metadata, dataset, result, iter>>
    /\ UnchangedTransformers

\* flow.size(), called between the iterations
Size ==
    /\ iter # NoneValue => iter.done
    /\ result' = Return(size(flow))
    /\ call' = [op |-> "size", seq |-> call.seq]
    /\ UNCHANGED <<continuous_columns, metadata, dataset, flow, iter>>
    /\ UnchangedTransformers

\* iter = flow.get_data(): a fresh generator, made once the one before it (if
\* any) is exhausted
GetData ==
    /\ call.seq < MaxIters
    /\ flow.rng # NoneValue
    /\ iter # NoneValue => iter.done
    /\ iter' = NewGenerator
    /\ call' = [op |-> "get_data", seq |-> call.seq + 1]
    /\ UNCHANGED <<continuous_columns, metadata, dataset, flow, result>>
    /\ UnchangedTransformers

\* next(iter)
IterNext ==
    /\ iter # NoneValue
    /\ ~iter.done
    /\ \E idxs \in IF iter.started THEN {iter.idxs} ELSE get_data_idxs(flow) :
        iter' = generator_next(flow, iter, idxs)
    /\ UNCHANGED <<continuous_columns, metadata, dataset, flow, result, call>>
    /\ UnchangedTransformers

NextFlow ==
    \/ ResetState
    \/ Size
    \/ GetData
    \/ IterNext

SpecFlow == InitFlow /\ [][NextFlow]_vars

\* the consumer of a generator keeps calling next() until it is exhausted
FairSpecFlow == SpecFlow /\ WF_vars(IterNext)

-----------------------------------------------------------------------------
(* Properties of the transformers *)

\* C1: reverse_transform applied to the indices and mapping that transform
\* returned for a column of strings returns the column, element for element
\* and in the same order.
CategoricalRoundTrip ==
    (call.op = "reverse_transform" /\ call.data = "encoded")
        => decoded = Return(column)

\* a column with a repeated value and two distinct values, out of sorted
\* order, has been encoded and decoded
CategoricalRoundTripWitness ==
    /\ call.op = "reverse_transform"
    /\ call.data = "encoded"
    /\ Len(column) = 3
    /\ column[1] = column[3]
    /\ LexLess(column[2], column[1])
    /\ decoded.error = "none"

\* row i of the encoded column: the component transform normalized it with
ModeOf(i) == npArgmax(encoded.value.probs.rows[i]) + 1

\* the normalized scalar of row i before clipping
Unclipped(i) ==
    Rat(column.rows[i][1] - encoded.value.means[ModeOf(i)],
        2 * encoded.value.stds[ModeOf(i)])

NotClipped(i) == RatLeq(ClipLow, Unclipped(i)) /\ RatLeq(Unclipped(i), ClipHigh)

UniqueArgmax(i) ==
    LET p == encoded.value.probs.rows[i]
    IN  \A j \in 1..Len(p) : j # ModeOf(i) => p[j] < p[ModeOf(i)]

\* C8: every scalar transform emits lies in [-0.99, 0.99], and reverse_transform
\* of the encoded rows with the returned means and stds recovers every value
\* whose scalar was not clipped and whose argmax is unique.
ContinuousRoundTrip ==
    (encoded # NoneValue /\ encoded.error = "none") =>
        /\ \A i \in 1..Len(encoded.value.features.rows) :
            LET v == encoded.value.features.rows[i][1]
            IN  RatLeq(ClipLow, v) /\ RatLeq(v, ClipHigh)
        /\ (call.op = "reverse_transform" /\ call.data = "encoded") =>
            /\ decoded.error = "none"
            /\ \A i \in 1..Len(column.rows) :
                (NotClipped(i) /\ UniqueArgmax(i))
                    => decoded.value[i] = RatOfInt(column.rows[i][1])

\* a column has been encoded and decoded in which one value was normalized
\* with a component other than the first, unclipped and off the mean, and
\* another value was clipped
ContinuousRoundTripWitness ==
    /\ encoded # NoneValue
    /\ encoded.error = "none"
    /\ call.op = "reverse_transform"
    /\ call.data = "encoded"
    /\ decoded.error = "none"
    /\ \E i \in 1..Len(column.rows) :
        /\ NotClipped(i)
        /\ UniqueArgmax(i)
        /\ ModeOf(i) > 1
        /\ Unclipped(i).n # 0
    /\ \E i \in 1..Len(column.rows) : ~NotClipped(i)

-----------------------------------------------------------------------------
(* Properties of the Preprocessor and of load_data *)

Fitted_ == metadata # NoneValue

\* the strings of column i (from 1) of a raw table
ColumnStrings(data, i) == [r \in 1..Len(data[i]) |-> astype_str(data[i][r])]

\* the metadata describes the table: as many columns, the continuous ones
\* with 'value' descriptors, the others with 'category' descriptors whose
\* mapping has every value of the column
InVocabulary(data) ==
    /\ metadata.num_features = num_cols(data)
    /\ Len(metadata.details) = num_cols(data)
    /\ \A i \in 1..num_cols(data) :
        IF (i - 1) \in continuous_columns
        THEN metadata.details[i].type = "value"
        ELSE /\ metadata.details[i].type = "category"
             /\ Range(ColumnStrings(data, i)) \subseteq Range(metadata.details[i].mapping)

\* C2: on a fitted Preprocessor, reverse_transform(transform(table)) returns
\* the categorical columns of the table unchanged whenever all their values
\* occur in the fitted vocabulary.
TransformReusesFit ==
    (/\ call.op = "reverse_transform"
     /\ call.of = "transform"
     /\ Fitted_
     /\ InVocabulary(call.source))
        => /\ result.error = "none"
           /\ \A i \in 1..num_cols(call.source) :
                (i - 1) \notin continuous_columns
                    => result.value[i] = ColumnStrings(call.source, i)

FitIsAtomic ==
    [][(call'.op \in {"fit", "fit_transform"} /\ call'.seq # call.seq)
          => /\ result'.error # "none" => metadata' = metadata
             /\ metadata' # metadata
                    => /\ metadata'.num_features = num_cols(call'.data)
                       /\ Len(metadata'.details) = num_cols(call'.data)]_vars

\* fit has raised on the second column of a table, after the first was
\* processed, on a Preprocessor that holds metadata
FitIsAtomicWitness ==
    /\ call.op = "fit"
    /\ result.error = "ValueError"
    /\ continuous_columns = {1}
    /\ num_cols(call.data) = 2
    /\ Fitted_

\* C5: on a Preprocessor without metadata, transform and reverse_transform
\* raise an error.
UnfitRejectsTransform ==
    (~Fitted_ /\ call.op \in {"transform", "reverse_transform"})
        => result.error # "none"

\* C6: reverse_transform raises an error whenever a descriptor of the
\* metadata has a type other than 'value' and 'category'.
UnsupportedTypeRejected ==
    (/\ call.op = "reverse_transform"
     /\ Fitted_
     /\ \E i \in 1..Len(metadata.details) :
            metadata.details[i].type \notin {"value", "category"})
        => result.error # "none"

\* C7: on a fitted Preprocessor, transform and reverse_transform raise an
\* error for a table whose number of columns is not metadata.num_features.
SchemaMismatchRejected ==
    (/\ call.op \in {"transform", "reverse_transform"}
     /\ Fitted_
     /\ Cardinality(DOMAIN call.data) # metadata.num_features)
        => result.error # "none"

\* C10: the metadata of the dataset load_data returns, called with
\* preprocessing and continuous columns, has a 'value' descriptor for exactly
\* the columns in continuous_columns.
LoadDataHonoursColumnRoles ==
    (/\ call.op = "load_data"
     /\ call.preprocessing
     /\ call.continuous_columns # {}
     /\ result.error = "none")
        => \A i \in 1..Len(result.value.metadata.details) :
              (result.value.metadata.details[i].type = "value")
                  <=> ((i - 1) \in call.continuous_columns)

-----------------------------------------------------------------------------
(* Properties of NpDataFlow *)

\* the number of records of the transformed table the flow was built over
Records == IF DOMAIN dataset = {} THEN 0 ELSE Len(dataset[0].rows)

RECURSIVE RecordParts(_, _)
\* record k of the transformed table as NpDataFlow presents it: for each
\* column from column_id on, its index array if categorical, its value array
\* and its cluster array if continuous
RecordParts(k, column_id) ==
    IF column_id = metadata.num_features
    THEN <<>>
    ELSE (IF metadata.details[column_id + 1].type = "value"
          THEN <<SubSeq(dataset[column_id].rows[k], 1, 1),
                 SubSeq(dataset[column_id].rows[k], 2, Len(dataset[column_id].rows[k]))>>
          ELSE <<dataset[column_id].rows[k]>>)
         \o RecordParts(k, column_id + 1)

RecordRows == [k \in 1..Records |-> RecordParts(k, 0)]

\* the number of times row occurs in rows
Occurrences(rows, row) == Cardinality({k \in 1..Len(rows) : rows[k] = row})

SameRows(a, b) ==
    /\ Len(a) = Len(b)
    /\ \A row \in Range(a) \cup Range(b) : Occurrences(a, row) = Occurrences(b, row)

Exhausted == iter # NoneValue /\ iter.done

\* C9: size() returns the number R of records of the transformed table; an
\* iteration of get_data() never yields more than R rows and comes to its
\* end, having then yielded every row exactly once, in the order of the
\* records if shuffle is off; the flow's rows are the same for the next
\* iteration.
FlowYieldsEveryRowOnce ==
    /\ [](call.op = "size" => result = Return(Records))
    /\ [](iter # NoneValue => Len(iter.yielded) <= Records)
    /\ [](Exhausted => SameRows(iter.yielded, RecordRows))
    /\ [](Exhausted /\ ~flow.shuffle => iter.yielded = RecordRows)
    /\ [](flow.data = RecordRows)
    /\ ((iter # NoneValue /\ ~iter.done) ~> Exhausted)

\* the second iteration over a shuffled flow of several different rows is
\* exhausted, in an order that is not the order of the records
FlowYieldsEveryRowOnceWitness ==
    /\ Exhausted
    /\ call.seq = MaxIters
    /\ flow.shuffle
    /\ Records = MaxRows
    /\ iter.yielded # RecordRows

====
